---------------------------- MODULE Spec2Model ----------------------------
(***************************************************************************)
(* Model of AGENTS.ts: the documentation-assembly script.                  *)
(*                                                                         *)
(* Strings are sequences of one-character strings, so that trimming,       *)
(* fence computation, path handling, version parsing and joining are       *)
(* computed character by character as the code computes them.              *)
(*                                                                         *)
(* Four specifications share the definitions:                              *)
(*   Spec        the script's top level: the producers of the Promise.all  *)
(*               array run concurrently, then filter / join / output;      *)
(*   SpecCache   loadCargoMetadata called by several callers at any time;  *)
(*   SpecFence   getFence applied to every bounded content string;         *)
(*   SpecSelect  the candidate reduce of                                   *)
(*               includeCargoDependencyFileIfExists applied to every       *)
(*               bounded candidate list.                                   *)
(***************************************************************************)
EXTENDS Integers, Sequences, FiniteSets, TLC

VARIABLES
    declared,     \* the array literal handed to Promise.all: producer descriptors
    mainpc,       \* position of the top-level module code
    started,      \* number of array elements already evaluated (producers called)
    pc,           \* per producer: the await it is suspended at
    statSeen,     \* per producer: what Deno.stat answered to its fileExists call
    target,       \* per producer: the path its pending stat / read is about
    res,          \* per producer: its promise (pending / fulfilled / rejected)
    overtook,     \* history: some producer settled while an earlier-declared one was pending
    allState,     \* the Promise.all promise: state, values array, remaining count, error
    content,      \* `content` of line 246 once computed
    output,       \* what has been written: channel and text
    uncaught,     \* the error that ended the run, if one did
    cached,       \* `cached` of loadCargoMetadata's closure
    invocations,  \* history: number of `cargo metadata` commands spawned
    stderrSeen,   \* history: what the ended `cargo metadata` command wrote to stderr
    callerpc,     \* SpecCache: per caller, position
    callerGot,    \* SpecCache: per caller, the settled promise it observed
    fenceIn,      \* SpecFence: the contents argument
    fenceOut,     \* SpecFence: the returned fence
    fenceDone,    \* SpecFence: getFence has returned
    selIn,        \* SpecSelect: the candidates array
    selOut        \* SpecSelect: outcome of the reduce

orchVars  == <<declared, mainpc, started, pc, statSeen, target, res,
               overtook, allState, content, output, uncaught>>
cacheVars == <<cached, invocations, stderrSeen>>
callVars  == <<callerpc, callerGot>>
fenceVars == <<fenceIn, fenceOut, fenceDone>>
selVars   == <<selIn, selOut>>
vars      == <<orchVars, cacheVars, callVars, fenceVars, selVars>>

-----------------------------------------------------------------------------
(* Bounds *)

NumProducers    == 3   \* length of the array handed to Promise.all
NumCallers      == 3   \* callers of loadCargoMetadata in SpecCache
MaxContentLen   == 4   \* length of the strings handed to getFence in SpecFence
MaxCandidates   == 3   \* length of the candidates array in SpecSelect

-----------------------------------------------------------------------------
(* Strings as character sequences *)

Max(a, b) == IF a > b THEN a ELSE b

RECURSIVE Repeat(_, _)
Repeat(ch, n) == IF n <= 0 THEN <<>> ELSE <<ch>> \o Repeat(ch, n - 1)

RECURSIVE StringsUpTo(_, _)
StringsUpTo(alphabet, n) ==
    IF n = 0 THEN {<<>>}
    ELSE LET shorter == StringsUpTo(alphabet, n - 1)
         IN  shorter \cup {Append(s, c) : s \in {t \in shorter : Len(t) = n - 1}, c \in alphabet}

\* The backtick character (U+0060), the marker of getFence. TLA+ string
\* literals cannot hold it, so the one-character string is written "BT".
Backtick == "BT"

\* UTF-16 code units of the characters the model uses (JS compares strings by them)
CharCode(c) ==
    CASE c = "\n" -> 10
      [] c = " "  -> 32
      [] c = "#"  -> 35
      [] c = "+"  -> 43
      [] c = "-"  -> 45
      [] c = "."  -> 46
      [] c = "/"  -> 47
      [] c = "0"  -> 48
      [] c = "1"  -> 49
      [] c = "2"  -> 50
      [] c = "9"  -> 57
      [] c = "D"  -> 68
      [] c = "a"  -> 97
      [] c = "b"  -> 98
      [] c = "d"  -> 100
      [] c = "e"  -> 101
      [] c = "g"  -> 103
      [] c = "l"  -> 108
      [] c = "m"  -> 109
      [] c = "o"  -> 111
      [] c = "r"  -> 114
      [] c = "s"  -> 115
      [] c = "t"  -> 116
      [] c = "x"  -> 120
      [] c = Backtick -> 96
      [] OTHER    -> 0

\* s > t on JS strings
RECURSIVE StrGt(_, _)
StrGt(s, t) ==
    IF s = <<>> THEN FALSE
    ELSE IF t = <<>> THEN TRUE
    ELSE IF CharCode(Head(s)) # CharCode(Head(t)) THEN CharCode(Head(s)) > CharCode(Head(t))
    ELSE StrGt(Tail(s), Tail(t))

IsSpace(c) == c \in {" ", "\n"}

\* String.prototype.trimEnd
RECURSIVE trimEnd(_)
trimEnd(s) ==
    IF s = <<>> THEN <<>>
    ELSE IF IsSpace(s[Len(s)]) THEN trimEnd(SubSeq(s, 1, Len(s) - 1))
    ELSE s

\* String.prototype.trim
RECURSIVE trimStart(_)
trimStart(s) ==
    IF s = <<>> THEN <<>>
    ELSE IF IsSpace(Head(s)) THEN trimStart(Tail(s))
    ELSE s

trim(s) == trimEnd(trimStart(s))

endsWith(s, suffix) ==
    /\ Len(s) >= Len(suffix)
    /\ SubSeq(s, Len(s) - Len(suffix) + 1, Len(s)) = suffix

\* String.prototype.toLowerCase on the alphabet of the model
toLowerCase(s) == [i \in 1..Len(s) |-> IF s[i] = "D" THEN "d" ELSE s[i]]

\* indices of ch in s
IndicesOf(s, ch) == {i \in 1..Len(s) : s[i] = ch}

SetMax(S) == CHOOSE x \in S : \A y \in S : y <= x
SetMin(S) == CHOOSE x \in S : \A y \in S : x <= y

\* String.prototype.split on a one-character separator
RECURSIVE Split(_, _)
Split(s, ch) ==
    IF IndicesOf(s, ch) = {} THEN <<s>>
    ELSE LET i == SetMin(IndicesOf(s, ch))
         IN  <<SubSeq(s, 1, i - 1)>> \o Split(SubSeq(s, i + 1, Len(s)), ch)

-----------------------------------------------------------------------------
(* getFence, lines 54-58 *)

\* contents.match(/BT+/g) ?? [] : the maximal backtick runs, left to right
RECURSIVE FenceMatches(_)
FenceMatches(contents) ==
    IF contents = <<>> THEN <<>>
    ELSE IF Head(contents) # Backtick THEN FenceMatches(Tail(contents))
    ELSE LET stops == {i \in 1..Len(contents) : contents[i] # Backtick}
             n     == IF stops = {} THEN Len(contents) ELSE SetMin(stops) - 1
         IN  <<SubSeq(contents, 1, n)>> \o FenceMatches(SubSeq(contents, n + 1, Len(contents)))

\* matches.reduce((current, match) => Math.max(current, match.length), 0)
RECURSIVE FenceReduce(_, _)
FenceReduce(matches, current) ==
    IF matches = <<>> THEN current
    ELSE FenceReduce(Tail(matches), Max(current, Len(Head(matches))))

getFenceNoIncrement(contents) ==
    Repeat(Backtick, Max(3, FenceReduce(FenceMatches(contents), 0)))

getFence(contents) ==
    Repeat(Backtick, Max(3, FenceReduce(FenceMatches(contents), 0) + 1))

-----------------------------------------------------------------------------
(* Errors: the Error objects the code and its runtime throw.  `kind` is the  *)
(* message's fixed part, `subject` the interpolated part (<<>> if none).     *)

Err(kind, subject) == [kind |-> kind, subject |-> subject]
NoErr == Err("none", <<>>)

-----------------------------------------------------------------------------
(* jsr:@std/semver parse and compare (imported on line 4), per Semantic      *)
(* Versioning 2.0.0: MAJOR.MINOR.PATCH[-PRERELEASE][+BUILD]                  *)

IsDigit(c) == CharCode(c) \in 48..57
IsIdChar(c) == IsDigit(c) \/ CharCode(c) \in 65..90 \/ CharCode(c) \in 97..122 \/ c = "-"

AllDigits(s) == s # <<>> /\ \A i \in 1..Len(s) : IsDigit(s[i])
\* a numeric identifier: 0 | [1-9]\d*
IsNumericId(s) == AllDigits(s) /\ (Len(s) = 1 \/ s[1] # "0")
IsBuildId(s) == s # <<>> /\ \A i \in 1..Len(s) : IsIdChar(s[i])
IsPrereleaseId(s) == IsBuildId(s) /\ (AllDigits(s) => IsNumericId(s))

RECURSIVE ToNat(_)
ToNat(s) == IF s = <<>> THEN 0 ELSE 10 * ToNat(SubSeq(s, 1, Len(s) - 1)) + (CharCode(s[Len(s)]) - 48)

NotSemVer == [ok |-> FALSE, major |-> 0, minor |-> 0, patch |-> 0, prerelease |-> <<>>, build |-> <<>>]

\* the three groups of the version pattern, as lists of dot-separated identifiers
SemVerOfParts(coreParts, preParts, bldParts) ==
    IF /\ Len(coreParts) = 3
       /\ \A i \in 1..Len(coreParts) : IsNumericId(coreParts[i])
       /\ \A i \in 1..Len(preParts) : IsPrereleaseId(preParts[i])
       /\ \A i \in 1..Len(bldParts) : IsBuildId(bldParts[i])
    THEN [ok |-> TRUE, major |-> ToNat(coreParts[1]), minor |-> ToNat(coreParts[2]),
          patch |-> ToNat(coreParts[3]), prerelease |-> preParts, build |-> bldParts]
    ELSE NotSemVer

\* s cut at the first ch: what precedes it, whether it occurs, what follows it
CutAt(s, at) ==
    IF at = {} THEN [head |-> s, has |-> FALSE, rest |-> <<>>]
    ELSE [head |-> SubSeq(s, 1, SetMin(at) - 1), has |-> TRUE,
          rest |-> SubSeq(s, SetMin(at) + 1, Len(s))]

CutFirst(s, ch) == CutAt(s, IndicesOf(s, ch))

PartsOf(cut) == IF cut.has THEN Split(cut.rest, ".") ELSE <<>>

SemVerOfCuts(preCut, buildCut) ==
    SemVerOfParts(Split(preCut.head, "."), PartsOf(preCut), PartsOf(buildCut))

SemVerOfBuildCut(buildCut) == SemVerOfCuts(CutFirst(buildCut.head, "-"), buildCut)

\* parse(value): the build metadata follows the first "+", the prerelease the
\* first "-" before it
parse(value) == SemVerOfBuildCut(CutFirst(value, "+"))

Sign(a, b) == IF a < b THEN -1 ELSE IF a > b THEN 1 ELSE 0

\* one prerelease identifier against another: numeric ones by value and below
\* alphanumeric ones, alphanumeric ones by code unit
compareIdentifier(a, b) ==
    IF AllDigits(a) /\ AllDigits(b) THEN Sign(ToNat(a), ToNat(b))
    ELSE IF AllDigits(a) THEN -1
    ELSE IF AllDigits(b) THEN 1
    ELSE IF StrGt(a, b) THEN 1
    ELSE IF StrGt(b, a) THEN -1
    ELSE 0

RECURSIVE comparePrerelease(_, _)
comparePrerelease(p, q) ==
    IF p = <<>> /\ q = <<>> THEN 0
    ELSE IF q = <<>> THEN 1
    ELSE IF p = <<>> THEN -1
    ELSE IF compareIdentifier(Head(p), Head(q)) # 0 THEN compareIdentifier(Head(p), Head(q))
    ELSE comparePrerelease(Tail(p), Tail(q))

\* compare(a, b) of two parsed versions: -1, 0 or 1; build metadata is ignored
compare(a, b) ==
    IF a.major # b.major THEN Sign(a.major, b.major)
    ELSE IF a.minor # b.minor THEN Sign(a.minor, b.minor)
    ELSE IF a.patch # b.patch THEN Sign(a.patch, b.patch)
    ELSE IF a.prerelease # <<>> /\ b.prerelease = <<>> THEN -1
    ELSE IF a.prerelease = <<>> /\ b.prerelease # <<>> THEN 1
    ELSE comparePrerelease(a.prerelease, b.prerelease)

-----------------------------------------------------------------------------
(* parseSemVer, lines 183-189, and the candidate reduce, lines 197-209 *)

\* the error of an invalid version carries the version string and nothing else,
\* whether it is the one of line 186 or the one parse itself raises
ParseSemVerResult(value, parsed) ==
    IF parsed.ok
    THEN [threw |-> FALSE, err |-> NoErr, semver |-> parsed]
    ELSE [threw |-> TRUE, err |-> Err("invalid semver", value), semver |-> NotSemVer]

\* throws (threw = TRUE) when the version does not parse
parseSemVer(value) == ParseSemVerResult(value, parse(value))

\* a CargoPackage (lines 153-158)
Package(id, name, version, manifest_path) ==
    [id |-> id, name |-> name, version |-> version, manifest_path |-> manifest_path]

NullPackage == [present |-> FALSE, pkg |-> Package("", <<>>, <<>>, <<>>)]
SomePackage(p) == [present |-> TRUE, pkg |-> p]

Keep(best) == [threw |-> FALSE, err |-> NoErr, best |-> best]
Throw(e, best) == [threw |-> TRUE, err |-> e, best |-> best]

\* lines 202-208 on the comparison result
PickByComparisonNoTieBreak(best, current, comparison) ==
    IF comparison > 0 THEN Keep(SomePackage(current))
    ELSE Keep(best)

PickByComparison(best, current, comparison) ==
    IF comparison > 0 THEN Keep(SomePackage(current))
    ELSE IF comparison = 0 /\ StrGt(current.manifest_path, best.pkg.manifest_path)
    THEN Keep(SomePackage(current))
    ELSE Keep(best)

\* line 201: parseSemVer(current.version) is evaluated first, then
\* parseSemVer(best.version), then compare
CompareParsed(best, current, c, b) ==
    IF c.threw THEN Throw(c.err, best)
    ELSE IF b.threw THEN Throw(b.err, best)
    ELSE PickByComparison(best, current, compare(c.semver, b.semver))

\* the reducer callback (best, current) => ..., lines 197-209
ReduceStepValidatesFirst(best, current) ==
    IF ~best.present
    THEN CompareParsed(SomePackage(current), current,
                       parseSemVer(current.version), parseSemVer(current.version))
    ELSE CompareParsed(best, current,
                       parseSemVer(current.version), parseSemVer(best.pkg.version))

ReduceStep(best, current) ==
    IF ~best.present THEN Keep(SomePackage(current))
    ELSE CompareParsed(best, current,
                       parseSemVer(current.version), parseSemVer(best.pkg.version))

\* candidates.reduce(callback, null): left to right, a throw ends it
RECURSIVE Reduce(_, _)
Reduce(candidates, acc) ==
    IF candidates = <<>> \/ acc.threw THEN acc
    ELSE Reduce(Tail(candidates), ReduceStep(acc.best, Head(candidates)))

\* metadata.packages.filter((pkg) => pkg.name === dependencyName), line 193
RECURSIVE FilterByName(_, _)
FilterByName(packages, dependencyName) ==
    IF packages = <<>> THEN <<>>
    ELSE IF Head(packages).name = dependencyName
         THEN <<Head(packages)>> \o FilterByName(Tail(packages), dependencyName)
         ELSE FilterByName(Tail(packages), dependencyName)

-----------------------------------------------------------------------------
(* Paths: isMarkdownPath (line 21), resolvePath (line 23), and extname,      *)
(* dirname, join of jsr:@std/path (line 10)                                  *)

isMarkdownPath(path) == endsWith(toLowerCase(path), <<".", "m", "d">>)

\* the directory of the script, rootUrl of line 19
RootDir == <<"/">>

\* new URL(path, rootUrl): an absolute path stays, a relative one is under the root
resolvePath(path) == IF path # <<>> /\ Head(path) = "/" THEN path ELSE RootDir \o path

basename(path) ==
    IF IndicesOf(path, "/") = {} THEN path
    ELSE SubSeq(path, SetMax(IndicesOf(path, "/")) + 1, Len(path))

\* extname: from the last dot of the last segment, "" without one or for a dotfile
extname(path) ==
    LET base == basename(path)
        dots == IndicesOf(base, ".")
    IN  IF dots = {} \/ SetMax(dots) = 1 THEN <<>>
        ELSE SubSeq(base, SetMax(dots), Len(base))

dirname(path) ==
    LET slashes == IndicesOf(path, "/")
    IN  IF slashes = {} THEN <<".">>
        ELSE IF SetMax(slashes) = 1 THEN <<"/">>
        ELSE SubSeq(path, 1, SetMax(slashes) - 1)

\* join(crateRoot, path) of two non-empty segments
join(a, b) == IF a[Len(a)] = "/" THEN a \o b ELSE a \o <<"/">> \o b

-----------------------------------------------------------------------------
(* Rendering, lines 37-102 *)

\* Array.prototype.join
RECURSIVE Join(_, _)
Join(parts, sep) ==
    IF parts = <<>> THEN <<>>
    ELSE IF Len(parts) = 1 THEN parts[1]
    ELSE parts[1] \o sep \o Join(Tail(parts), sep)

\* getLanguageIdentifier, lines 60-74
getLanguageIdentifier(path) ==
    LET extension == extname(path)
    IN  CASE extension = <<".", "t", "s">> ->
                [threw |-> FALSE, err |-> NoErr,
                 id |-> <<"t", "y", "p", "e", "s", "c", "r", "i", "p", "t">>]
          [] extension = <<".", "r", "s">> ->
                [threw |-> FALSE, err |-> NoErr, id |-> <<"r", "u", "s", "t">>]
          [] extension = <<".", "x", "m", "l">> ->
                [threw |-> FALSE, err |-> NoErr, id |-> <<"x", "m", "l">>]
          [] extension = <<".", "t", "o", "m", "l">> ->
                [threw |-> FALSE, err |-> NoErr, id |-> <<"t", "o", "m", "l">>]
          [] OTHER ->
                [threw |-> TRUE, id |-> <<>>,
                 err |-> Err("Could not get a language identifier for extension", extension)]

\* renderCodeFile, lines 46-52
renderCodeFile(path, contents) ==
    LET identifier == getLanguageIdentifier(path)
        trimmed    == trimEnd(contents)
        fence      == getFence(trimmed)
        fenced     == fence \o identifier.id \o <<"\n">> \o trimmed \o <<"\n">> \o fence
    IN  IF identifier.threw
        THEN [threw |-> TRUE, err |-> identifier.err, text |-> <<>>]
        ELSE [threw |-> FALSE, err |-> NoErr,
              text |-> Join(<< <<"#", "#", "#", " ">> \o path, fenced >>, <<"\n", "\n">>)]

\* remark-heading-shift by 1 between remark-parse and remark-stringify (lines
\* 38-42): every ATX heading line gains one level
ShiftLine(line) ==
    IF line # <<>> /\ Head(line) = "#" THEN <<"#">> \o line ELSE line

remarkProcess(markdown) ==
    LET lines == Split(markdown, "\n")
    IN  Join([i \in 1..Len(lines) |-> ShiftLine(lines[i])], <<"\n">>)

\* shiftHeadings, lines 37-44; transformOk is whether the pipeline succeeds
shiftHeadings(markdown, transformOk) ==
    IF transformOk
    THEN [threw |-> FALSE, err |-> NoErr, text |-> trimEnd(remarkProcess(markdown))]
    ELSE [threw |-> TRUE, err |-> Err("RenderError", <<>>), text |-> <<>>]

\* renderFileContents, lines 97-102
renderFileContents(path, contents, pathToRender, transformOk) ==
    IF isMarkdownPath(path) THEN shiftHeadings(contents, transformOk)
    ELSE renderCodeFile(pathToRender, contents)

-----------------------------------------------------------------------------
(* Promises *)

Absent == [present |-> FALSE, text |-> <<>>]      \* null
Text(t) == [present |-> TRUE, text |-> t]

Pending == [state |-> "pending", value |-> Absent, err |-> NoErr]
Fulfilled(v) == [state |-> "fulfilled", value |-> v, err |-> NoErr]
Rejected(e) == [state |-> "rejected", value |-> Absent, err |-> e]

\* the promise held by `cached`: its value is the packages array of the metadata
CacheNull == [state |-> "null", value |-> <<>>, err |-> NoErr]
CachePending == [state |-> "pending", value |-> <<>>, err |-> NoErr]
CacheFulfilled(packages) == [state |-> "fulfilled", value |-> packages, err |-> NoErr]
CacheRejected(e) == [state |-> "rejected", value |-> <<>>, err |-> e]

-----------------------------------------------------------------------------
(* Inputs: the producer expressions of the array literal (lines 232-243),    *)
(* what the file system and the commands may answer                          *)

Resolve(text) ==
    [kind |-> "resolve", text |-> text, path |-> <<>>, dependencyName |-> <<>>]
IncludeFile(path) ==
    [kind |-> "includeFile", text |-> <<>>, path |-> path, dependencyName |-> <<>>]
IncludeFileIfExists(path) ==
    [kind |-> "includeFileIfExists", text |-> <<>>, path |-> path, dependencyName |-> <<>>]
IncludeCargoDependencyFileIfExists(dependencyName, path) ==
    [kind |-> "includeCargoDependencyFileIfExists", text |-> <<>>, path |-> path,
     dependencyName |-> dependencyName]

\* one expression of each form the array holds, with shortened literals:
\* "# g" for "# Guidelines", g.md for .agents/general.md, m.rs for src/main.rs,
\* ("e", "D.md") for ("errgonomic", "DOCS.md")
ProducerExprs ==
    { Resolve(<<"#", " ", "g">>),
      IncludeFile(<<"g", ".", "m", "d">>),
      IncludeFileIfExists(<<"m", ".", "r", "s">>),
      IncludeCargoDependencyFileIfExists(<<"e">>, <<"D", ".", "m", "d">>) }

\* what a file may hold
Contents == { <<>>, <<"#", " ", "a", "\n">> }

\* args.output (lines 12-17), read on line 248: absent, or a destination path
OutputArgs == { <<>>, <<"o">> }

\* what Deno.stat may answer
StatOutcomes == {"ok", "NotFound", "PermissionDenied"}

DepName == <<"e">>
PathA == <<"/", "a", "/", "p">>
PathB == <<"/", "b", "/", "p">>
V100  == <<"1", ".", "0", ".", "0">>
V200  == <<"2", ".", "0", ".", "0">>
V199  == <<"1", ".", "9", ".", "9">>
V1000 == <<"1", "0", ".", "0", ".", "0">>
V100a == <<"1", ".", "0", ".", "0", "-", "a", "+", "b">>
VBad  == <<"1", ".", "x">>

\* package records of the looked-up name
PackageUniverse ==
    { Package("p1", DepName, V100, PathA),
      Package("p2", DepName, V100, PathB),
      Package("p3", DepName, V200, PathA),
      Package("p4", DepName, V199, PathB),
      Package("p5", DepName, V100, PathA),
      Package("p6", DepName, V100a, PathB),
      Package("p7", DepName, V1000, PathA),
      Package("p8", DepName, VBad, PathA) }

\* the packages arrays `cargo metadata` may print
Graphs ==
    { << Package("q1", <<"o">>, VBad, PathB) >>,
      << Package("p1", DepName, V100, PathA) >>,
      << Package("p8", DepName, VBad, PathA) >>,
      << Package("p1", DepName, V100, PathA), Package("q2", <<"o">>, V100, PathB),
         Package("p3", DepName, V200, PathB) >>,
      << Package("p1", DepName, V100, PathA), Package("p8", DepName, VBad, PathA) >> }

\* what the `cargo metadata` command may do: exit abnormally with a stderr
\* text, or exit normally with a stdout that is JSON for a graph or is not JSON.
\* The stderr of a normal exit is varied where the stdout is not JSON.
CommandOutcomes ==
    { [success |-> FALSE, stderr |-> e, json |-> FALSE, packages |-> <<>>] :
          e \in { <<>>, <<"b", "a", "d", "\n">> } }
    \cup { [success |-> TRUE, stderr |-> e, json |-> FALSE, packages |-> <<>>] :
          e \in { <<>>, <<"b", "a", "d", "\n">> } }
    \cup { [success |-> TRUE, stderr |-> <<>>, json |-> TRUE, packages |-> g] : g \in Graphs }

-----------------------------------------------------------------------------
(* loadCargoMetadata, lines 160-181 *)

\* the call: lines 163-180
LoadCargoMetadataRetryRejected ==
    IF cached.state \in {"null", "rejected"}
    THEN /\ cached' = CachePending
         /\ invocations' = invocations + 1
         /\ UNCHANGED stderrSeen
    ELSE UNCHANGED cacheVars

LoadCargoMetadata ==
    IF cached.state = "null"
    THEN /\ cached' = CachePending
         /\ invocations' = invocations + 1
         /\ UNCHANGED stderrSeen
    ELSE UNCHANGED cacheVars

\* the async body after `await command.output()`: lines 172-176
CommandResult(outcome) ==
    IF ~outcome.success
    THEN CacheRejected(Err("cargo metadata failed", trim(outcome.stderr)))
    ELSE IF ~outcome.json THEN CacheRejected(Err("SyntaxError", <<>>))
    ELSE CacheFulfilled(outcome.packages)

CommandSettles(outcome) ==
    /\ cached.state = "pending"
    /\ cached' = CommandResult(outcome)
    /\ stderrSeen' = outcome.stderr
    /\ UNCHANGED invocations

-----------------------------------------------------------------------------
(* The top level, lines 231-253 *)

Producers == 1..NumProducers

\* values[index] = value on a JS array: the array grows to hold the index
StoreAtPush(values, index, value) == Append(values, value)

StoreAt(values, index, value) ==
    [i \in 1..Max(Len(values), index) |->
        IF i = index THEN value
        ELSE IF i <= Len(values) THEN values[i]
        ELSE Absent]

\* the promise Promise.all returns, before any element has settled
PromiseAllPending(n) ==
    [state |-> "pending", values |-> <<>>, remaining |-> n, err |-> NoErr]

\* Promise.all's reaction to element p settling.  A rejection rejects the
\* promise with that error if it is still pending.  A fulfilment stores the
\* value at the element's index and counts down; the last one fulfils the
\* promise if it is still pending.
PromiseAllReactionSettled(all, r, p) ==
    [state     |-> IF all.state = "pending" /\ all.remaining = 1 THEN "fulfilled"
                   ELSE all.state,
     values    |-> StoreAt(all.values, p, r[p].value),
     remaining |-> all.remaining - 1,
     err       |-> all.err]

PromiseAllReactionRace(all, r, p) ==
    IF r[p].state = "rejected"
    THEN [state     |-> IF all.state = "pending" THEN "rejected" ELSE all.state,
          values    |-> all.values,
          remaining |-> all.remaining,
          err       |-> IF all.state = "pending" THEN r[p].err ELSE all.err]
    ELSE [state     |-> IF all.state = "pending" THEN "fulfilled" ELSE all.state,
          values    |-> StoreAt(all.values, p, r[p].value),
          remaining |-> all.remaining - 1,
          err       |-> all.err]

PromiseAllReactionLastError(all, r, p) ==
    IF r[p].state = "rejected"
    THEN [state     |-> "rejected",
          values    |-> all.values,
          remaining |-> all.remaining,
          err       |-> r[p].err]
    ELSE [state     |-> IF all.state = "pending" /\ all.remaining = 1 THEN "fulfilled"
                        ELSE all.state,
          values    |-> StoreAt(all.values, p, r[p].value),
          remaining |-> all.remaining - 1,
          err       |-> all.err]

PromiseAllReaction(all, r, p) ==
    IF r[p].state = "rejected"
    THEN [state     |-> IF all.state = "pending" THEN "rejected" ELSE all.state,
          values    |-> all.values,
          remaining |-> all.remaining,
          err       |-> IF all.state = "pending" THEN r[p].err ELSE all.err]
    ELSE [state     |-> IF all.state = "pending" /\ all.remaining = 1 THEN "fulfilled"
                        ELSE all.state,
          values    |-> StoreAt(all.values, p, r[p].value),
          remaining |-> all.remaining - 1,
          err       |-> all.err]

\* Promise.all(array): the reactions of the elements already settled when it
\* is called run in array order
RECURSIVE PromiseAllAttach(_, _, _)
PromiseAllAttach(all, r, i) ==
    IF i > Len(r) THEN all
    ELSE PromiseAllAttach(IF r[i].state = "pending" THEN all ELSE PromiseAllReaction(all, r, i),
                          r, i + 1)

\* .filter((part): part is string => !!part && part.length > 0), line 244
RECURSIVE FilterPartsKeepEmpty(_)
FilterPartsKeepEmpty(values) ==
    IF values = <<>> THEN <<>>
    ELSE IF Head(values).present
         THEN <<Head(values).text>> \o FilterPartsKeepEmpty(Tail(values))
         ELSE FilterPartsKeepEmpty(Tail(values))

RECURSIVE FilterParts(_)
FilterParts(values) ==
    IF values = <<>> THEN <<>>
    ELSE IF Head(values).present /\ Len(Head(values).text) > 0
         THEN <<Head(values).text>> \o FilterParts(Tail(values))
         ELSE FilterParts(Tail(values))

NoOutput == [channel |-> "none", path |-> <<>>, text |-> <<>>]

\* a producer's promise settles; Promise.all reacts
Settle(p, r) ==
    /\ res' = [res EXCEPT ![p] = r]
    /\ pc' = [pc EXCEPT ![p] = "done"]
    /\ overtook' = (overtook \/ \E q \in 1..(p - 1) : res[q].state = "pending")
    /\ allState' = PromiseAllReaction(allState, res', p)

\* fileExists, lines 25-35, on what Deno.stat answered
fileExistsRethrowsNotFound(statOutcome) ==
    IF statOutcome = "ok" THEN [threw |-> FALSE, err |-> NoErr, exists |-> TRUE]
    ELSE [threw |-> TRUE, err |-> Err(statOutcome, <<>>), exists |-> FALSE]

fileExists(statOutcome) ==
    IF statOutcome = "ok" THEN [threw |-> FALSE, err |-> NoErr, exists |-> TRUE]
    ELSE IF statOutcome = "NotFound" THEN [threw |-> FALSE, err |-> NoErr, exists |-> FALSE]
    ELSE [threw |-> TRUE, err |-> Err(statOutcome, <<>>), exists |-> FALSE]

\* Evaluating the next element of the array literal calls the producer, which
\* runs up to its first await (lines 232-243)
StartProducer ==
    /\ mainpc = "array"
    /\ started < NumProducers
    /\ LET p == started + 1
           d == declared[p]
       IN  /\ started' = p
           /\ CASE d.kind = "resolve" ->
                     /\ res' = [res EXCEPT ![p] = Fulfilled(Text(d.text))]
                     /\ pc' = [pc EXCEPT ![p] = "done"]
                     /\ UNCHANGED <<target, cacheVars>>
                [] d.kind = "includeFile" ->
                     /\ pc' = [pc EXCEPT ![p] = "read"]
                     /\ target' = [target EXCEPT ![p] = resolvePath(d.path)]
                     /\ UNCHANGED <<res, cacheVars>>
                [] d.kind = "includeFileIfExists" ->
                     /\ pc' = [pc EXCEPT ![p] = "stat"]
                     /\ target' = [target EXCEPT ![p] = resolvePath(d.path)]
                     /\ UNCHANGED <<res, cacheVars>>
                [] d.kind = "includeCargoDependencyFileIfExists" ->
                     /\ LoadCargoMetadata
                     /\ pc' = [pc EXCEPT ![p] = "meta"]
                     /\ UNCHANGED <<res, target>>
    /\ UNCHANGED <<declared, mainpc, statSeen, overtook, allState, content, output,
                   uncaught, callVars, fenceVars, selVars>>

\* Promise.all(...) is called on the finished array and the module awaits it
\* (line 231)
CallPromiseAll ==
    /\ mainpc = "array"
    /\ started = NumProducers
    /\ allState' = PromiseAllAttach(PromiseAllPending(Len(res)), res, 1)
    /\ mainpc' = "await"
    /\ UNCHANGED <<declared, started, pc, statSeen, target, res, overtook,
                   content, output, uncaught, cacheVars, callVars, fenceVars, selVars>>

\* The `cargo metadata` command ends (line 171) and the cached promise settles
MetadataDone ==
    /\ mainpc = "await"
    /\ \E outcome \in CommandOutcomes : CommandSettles(outcome)
    /\ UNCHANGED <<orchVars, callVars, fenceVars, selVars>>

\* lines 193-215 on the fulfilled metadata: null without candidates, a throw
\* from the reduce, else the path whose existence is asked for
DepLookup(d, candidates, reduced) ==
    IF Len(candidates) = 0
    THEN [step |-> "settle", promise |-> Fulfilled(Absent), fullPath |-> <<>>]
    ELSE IF reduced.threw
    THEN [step |-> "settle", promise |-> Rejected(reduced.err), fullPath |-> <<>>]
    ELSE IF ~reduced.best.present
    THEN [step |-> "settle", fullPath |-> <<>>,
          promise |-> Rejected(Err("cargo package not found for dependency", d.dependencyName))]
    ELSE [step |-> "stat", promise |-> Pending,
          fullPath |-> join(dirname(reduced.best.pkg.manifest_path), d.path)]

DepLookupIn(d, candidates) == DepLookup(d, candidates, Reduce(candidates, Keep(NullPackage)))

\* what `await loadCargoMetadata()` and lines 193-215 come to
DepAfterMetadata(d, cache) ==
    IF cache.state = "rejected"
    THEN [step |-> "settle", promise |-> Rejected(cache.err), fullPath |-> <<>>]
    ELSE DepLookupIn(d, FilterByName(cache.value, d.dependencyName))

DepApply(p, next) ==
    IF next.step = "settle"
    THEN Settle(p, next.promise) /\ UNCHANGED target
    ELSE /\ pc' = [pc EXCEPT ![p] = "stat"]
         /\ target' = [target EXCEPT ![p] = resolvePath(next.fullPath)]
         /\ UNCHANGED <<res, overtook, allState>>

\* includeCargoDependencyFileIfExists resumes after `await loadCargoMetadata()`
\* (lines 192-215)
DepResume(p) ==
    /\ mainpc = "await"
    /\ pc[p] = "meta"
    /\ cached.state \in {"fulfilled", "rejected"}
    /\ DepApply(p, DepAfterMetadata(declared[p], cached))
    /\ UNCHANGED <<declared, mainpc, started, statSeen, content, output,
                   uncaught, cacheVars, callVars, fenceVars, selVars>>

\* Deno.stat answers a fileExists call (lines 25-35); the caller goes on to
\* read the file or returns null (lines 215-219, 223-228)
StatDone(p) ==
    /\ mainpc = "await"
    /\ pc[p] = "stat"
    /\ \E statOutcome \in StatOutcomes :
         LET exists == fileExists(statOutcome)
         IN  /\ statSeen' = [statSeen EXCEPT ![p] = statOutcome]
             /\ IF exists.threw THEN Settle(p, Rejected(exists.err))
                ELSE IF ~exists.exists THEN Settle(p, Fulfilled(Absent))
                ELSE /\ pc' = [pc EXCEPT ![p] = "read"]
                     /\ UNCHANGED <<res, overtook, allState>>
    /\ UNCHANGED <<declared, mainpc, started, target, content, output,
                   uncaught, cacheVars, callVars, fenceVars, selVars>>

\* Deno.readTextFile answers (lines 93, 219) and the contents are rendered
\* (lines 94, 220)
ReadDone(p) ==
    /\ mainpc = "await"
    /\ pc[p] = "read"
    /\ LET d == declared[p]
           pathToRender ==
               IF d.kind = "includeCargoDependencyFileIfExists"
               THEN d.dependencyName \o <<"/">> \o d.path
               ELSE d.path
       IN  \/ Settle(p, Rejected(Err("ReadError", <<>>)))
           \/ \E contents \in Contents :
                \E transformOk \in (IF isMarkdownPath(d.path) THEN BOOLEAN ELSE {TRUE}) :
                   LET rendered == renderFileContents(d.path, contents, pathToRender, transformOk)
                   IN  IF rendered.threw THEN Settle(p, Rejected(rendered.err))
                       ELSE Settle(p, Fulfilled(Text(rendered.text)))
    /\ UNCHANGED <<declared, mainpc, started, statSeen, target, content, output,
                   uncaught, cacheVars, callVars, fenceVars, selVars>>

\* Promise.all fulfilled: filter, join, and output (lines 244-253)
MainResume ==
    /\ mainpc = "await"
    /\ allState.state = "fulfilled"
    /\ LET parts == FilterParts(allState.values)
       IN  /\ content' = Join(parts, <<"\n", "\n">>)
           /\ \E argsOutput \in OutputArgs :
                IF argsOutput # <<>>
                THEN /\ mainpc' = "write"
                     /\ output' = [channel |-> "none", path |-> argsOutput, text |-> <<>>]
                ELSE /\ mainpc' = "done"
                     /\ output' = [channel |-> "stdout", path |-> <<>>,
                                   text |-> content' \o <<"\n">>]
    /\ UNCHANGED <<declared, started, pc, statSeen, target, res, overtook,
                   allState, uncaught, cacheVars, callVars, fenceVars, selVars>>

\* Deno.writeTextFile answers (line 250)
WriteDone ==
    /\ mainpc = "write"
    /\ \/ /\ mainpc' = "done"
          /\ output' = [channel |-> "file", path |-> output.path, text |-> content \o <<"\n">>]
          /\ UNCHANGED uncaught
       \/ /\ mainpc' = "failed"
          /\ uncaught' = Err("WriteError", <<>>)
          /\ UNCHANGED output
    /\ UNCHANGED <<declared, started, pc, statSeen, target, res, overtook,
                   allState, content, cacheVars, callVars, fenceVars, selVars>>

\* Promise.all rejected: the top-level await throws and the run ends (line 231)
MainThrow ==
    /\ mainpc = "await"
    /\ allState.state = "rejected"
    /\ mainpc' = "failed"
    /\ uncaught' = allState.err
    /\ UNCHANGED <<declared, started, pc, statSeen, target, res, overtook,
                   allState, content, output, cacheVars, callVars, fenceVars, selVars>>

\* the array literals the model runs: every list of NumProducers producer
\* expressions with at most one dependency producer, as in the code's array
DeclaredLists ==
    { f \in [Producers -> ProducerExprs] :
        Cardinality({p \in Producers : f[p].kind = "includeCargoDependencyFileIfExists"}) <= 1 }

OrchInit ==
    /\ mainpc = "array"
    /\ started = 0
    /\ pc = [p \in Producers |-> "unstarted"]
    /\ statSeen = [p \in Producers |-> "none"]
    /\ target = [p \in Producers |-> <<>>]
    /\ res = [p \in Producers |-> Pending]
    /\ overtook = FALSE
    /\ allState = [state |-> "uncreated", values |-> <<>>, remaining |-> 0, err |-> NoErr]
    /\ content = <<>>
    /\ output = NoOutput
    /\ uncaught = NoErr

CacheInit ==
    /\ cached = CacheNull
    /\ invocations = 0
    /\ stderrSeen = <<>>

CallersInit ==
    /\ callerpc = [c \in 1..NumCallers |-> "idle"]
    /\ callerGot = [c \in 1..NumCallers |-> CacheNull]

FenceIdle ==
    /\ fenceIn = <<>>
    /\ fenceOut = <<>>
    /\ fenceDone = FALSE

NotReduced == [done |-> FALSE, threw |-> FALSE, err |-> NoErr, best |-> NullPackage]

SelectIdle ==
    /\ selIn = <<>>
    /\ selOut = NotReduced

Init ==
    /\ declared \in DeclaredLists
    /\ OrchInit
    /\ CacheInit
    /\ CallersInit
    /\ FenceIdle
    /\ SelectIdle

Next ==
    \/ StartProducer
    \/ CallPromiseAll
    \/ MetadataDone
    \/ \E p \in Producers : DepResume(p)
    \/ \E p \in Producers : StatDone(p)
    \/ \E p \in Producers : ReadDone(p)
    \/ MainResume
    \/ WriteDone
    \/ MainThrow

Spec == Init /\ [][Next]_vars

-----------------------------------------------------------------------------
(* SpecCache: loadCargoMetadata (lines 160-181) under callers that call it   *)
(* at any time, before, while and after the command runs                     *)

\* caller c calls loadCargoMetadata() and awaits the promise it returns
CacheCall(c) ==
    /\ callerpc[c] \in {"idle", "got"}
    /\ LoadCargoMetadata
    /\ callerpc' = [callerpc EXCEPT ![c] = "waiting"]
    /\ UNCHANGED <<callerGot, orchVars, fenceVars, selVars>>

\* the command ends and the cached promise settles (lines 171-176)
CacheCommandDone ==
    /\ \E outcome \in CommandOutcomes : CommandSettles(outcome)
    /\ UNCHANGED <<callVars, orchVars, fenceVars, selVars>>

\* caller c's await of the cached promise resumes with its result
CacheObserve(c) ==
    /\ callerpc[c] = "waiting"
    /\ cached.state \in {"fulfilled", "rejected"}
    /\ callerGot' = [callerGot EXCEPT ![c] = cached]
    /\ callerpc' = [callerpc EXCEPT ![c] = "got"]
    /\ UNCHANGED <<cacheVars, orchVars, fenceVars, selVars>>

InitCache ==
    /\ declared = [p \in Producers |-> Resolve(<<>>)]
    /\ OrchInit
    /\ CacheInit
    /\ CallersInit
    /\ FenceIdle
    /\ SelectIdle

NextCache ==
    \/ \E c \in 1..NumCallers : CacheCall(c)
    \/ CacheCommandDone
    \/ \E c \in 1..NumCallers : CacheObserve(c)

SpecCache == InitCache /\ [][NextCache]_vars

-----------------------------------------------------------------------------
(* SpecFence: getFence (lines 54-58) on every string of at most              *)
(* MaxContentLen characters                                                  *)

FenceAlphabet == {Backtick, "a", "\n"}

CallGetFence ==
    /\ ~fenceDone
    /\ fenceOut' = getFence(fenceIn)
    /\ fenceDone' = TRUE
    /\ UNCHANGED <<fenceIn, orchVars, cacheVars, callVars, selVars>>

InitFence ==
    /\ declared = [p \in Producers |-> Resolve(<<>>)]
    /\ OrchInit
    /\ CacheInit
    /\ CallersInit
    /\ fenceIn \in StringsUpTo(FenceAlphabet, MaxContentLen)
    /\ fenceOut = <<>>
    /\ fenceDone = FALSE
    /\ SelectIdle

NextFence == CallGetFence

SpecFence == InitFence /\ [][NextFence]_vars

-----------------------------------------------------------------------------
(* SpecSelect: the candidate reduce (lines 197-209) on every non-empty       *)
(* candidates array of at most MaxCandidates records of the looked-up name   *)

\* all sequences over S of length 1..n
RECURSIVE SeqsUpTo(_, _)
SeqsUpTo(S, n) ==
    IF n = 0 THEN {}
    ELSE LET shorter == SeqsUpTo(S, n - 1)
         IN  shorter \cup {<<x>> : x \in S}
                     \cup {Append(q, x) : q \in {t \in shorter : Len(t) = n - 1}, x \in S}

CallReduce ==
    /\ ~selOut.done
    /\ LET r == Reduce(selIn, Keep(NullPackage))
       IN  selOut' = [done |-> TRUE, threw |-> r.threw, err |-> r.err, best |-> r.best]
    /\ UNCHANGED <<selIn, orchVars, cacheVars, callVars, fenceVars>>

InitSelect ==
    /\ declared = [p \in Producers |-> Resolve(<<>>)]
    /\ OrchInit
    /\ CacheInit
    /\ CallersInit
    /\ FenceIdle
    /\ selIn \in SeqsUpTo(PackageUniverse, MaxCandidates)
    /\ selOut = NotReduced

NextSelect == CallReduce

SpecSelect == InitSelect /\ [][NextSelect]_vars

-----------------------------------------------------------------------------
(* SpecErrors: the top level (lines 231-253) on arrays that also call         *)
(* includeFile on a path whose extension getLanguageIdentifier does not know  *)

\* n.y: a file name with an extension outside the switch of lines 62-73
UnknownExtensionPath == <<"n", ".", "y">>

ErrorProducerExprs == ProducerExprs \cup { IncludeFile(UnknownExtensionPath) }

\* the arrays with at most one dependency producer that hold a producer able to
\* fail in one of the ways of lines 72, 174, 176 and 186
ErrorDeclaredLists ==
    { f \in [Producers -> ErrorProducerExprs] :
        /\ Cardinality({p \in Producers : f[p].kind = "includeCargoDependencyFileIfExists"}) <= 1
        /\ \E p \in Producers : f[p].path \in { UnknownExtensionPath, <<"D", ".", "m", "d">> } }

InitErrors ==
    /\ declared \in ErrorDeclaredLists
    /\ OrchInit
    /\ CacheInit
    /\ CallersInit
    /\ FenceIdle
    /\ SelectIdle

SpecErrors == InitErrors /\ [][Next]_vars

-----------------------------------------------------------------------------
(* Properties *)

\* producer p's promise is fulfilled with a non-empty text
Retained(p) ==
    /\ res[p].state = "fulfilled"
    /\ res[p].value.present
    /\ res[p].value.text # <<>>

TextOf(p) == res[p].value.text

\* line 246 has been executed
Assembled == mainpc \in {"write", "done"}

\* t occurs in c at position a
OccursAt(t, c, a) ==
    /\ a + Len(t) - 1 <= Len(c)
    /\ c[a] = t[1]
    /\ SubSeq(c, a, a + Len(t) - 1) = t

\* an occurrence of s in c ends before an occurrence of t in c begins
AppearsBefore(s, t, c) ==
    \E a \in 1..Len(c) :
        /\ OccursAt(s, c, a)
        /\ \E b \in (a + Len(s))..Len(c) : OccursAt(t, c, b)

\* C1: once the artifact is assembled, for any two producers declared in the
\* order i before j that both yielded a non-empty text, the text of i appears
\* in the artifact before the text of j, whatever order they settled in.
C1_DeclarationOrder ==
    Assembled =>
        \A i \in Producers : \A j \in Producers :
            (i < j /\ Retained(i) /\ Retained(j))
                => AppearsBefore(TextOf(i), TextOf(j), content)

\* a later-declared producer settled first, both texts are retained and differ,
\* and the artifact has been assembled and printed
C1_Witness ==
    /\ mainpc = "done"
    /\ overtook
    /\ \E i \in Producers : \E j \in Producers :
          /\ i < j
          /\ declared[i].kind # "resolve"
          /\ Retained(i)
          /\ Retained(j)
          /\ TextOf(i) # TextOf(j)

\* C2: whenever some producer has failed, nothing has been written and the
\* top level is not past the join; output is reached only with every producer
\* fulfilled.
C2_AllOrNothing ==
    /\ (\E p \in Producers : res[p].state = "rejected")
          => (output.channel = "none" /\ ~Assembled)
    /\ (output.channel # "none")
          => (\A p \in Producers : res[p].state = "fulfilled")

\* a run that ended in failure although another producer had produced a text
C2_Witness ==
    /\ mainpc = "failed"
    /\ output.channel = "none"
    /\ \E p \in Producers : res[p].state = "rejected"
    /\ \E q \in Producers : declared[q].kind # "resolve" /\ Retained(q)

\* some caller has called loadCargoMetadata
SomeoneCalled == \E c \in 1..NumCallers : callerpc[c] # "idle"

\* C3: the command has been spawned zero times while nobody has called
\* loadCargoMetadata and exactly once from the first call on, for any callers
\* and interleaving; every caller whose await has resumed observed the one
\* cached promise, fulfilled or rejected, and that promise is never replaced.
C3_InvokedAtMostOnce ==
    /\ invocations = (IF SomeoneCalled THEN 1 ELSE 0)
    /\ (cached.state = "null") = ~SomeoneCalled
    /\ \A c \in 1..NumCallers :
          callerGot[c].state # "null" => callerGot[c] = cached

\* after the command failed, one caller observed the failure and called
\* again, another has observed it too, and the command ran once
C3_Witness ==
    /\ invocations = 1
    /\ cached.state = "rejected"
    /\ \E c \in 1..NumCallers : \E e \in 1..NumCallers :
          /\ c # e
          /\ callerpc[c] = "waiting"
          /\ callerGot[c].state = "rejected"
          /\ callerpc[e] = "got"

\* the content has k consecutive backticks somewhere
HasRun(s, k) ==
    \E i \in 1..(Len(s) - k + 1) : \A j \in i..(i + k - 1) : s[j] = Backtick

\* M: the length of the longest run of backticks, 0 without any
LongestRun(s) == SetMax({0} \cup {k \in 1..Len(s) : HasRun(s, k)})

\* C4: getFence returns max(3, M + 1) backticks, M being the longest backtick
\* run of the content (0 without one, empty content included); so the fence
\* has at least 3 characters and the content has no run as long as the fence.
C4_FenceLength ==
    fenceDone =>
        /\ Len(fenceOut) = Max(3, LongestRun(fenceIn) + 1)
        /\ \A i \in 1..Len(fenceOut) : fenceOut[i] = Backtick
        /\ Len(fenceOut) >= 3
        /\ ~HasRun(fenceIn, Len(fenceOut))

\* a content whose longest run is 3 backticks got a fence of 4
C4_Witness ==
    /\ fenceDone
    /\ LongestRun(fenceIn) = 3
    /\ Len(fenceOut) = 4

\* every candidate's version parses
AllValid(candidates) ==
    \A i \in 1..Len(candidates) : parse(candidates[i].version).ok

IndexPermutations(n) == {f \in [1..n -> 1..n] : \A i \in 1..n : \E j \in 1..n : f[j] = i}

Permuted(candidates, f) == [i \in 1..Len(candidates) |-> candidates[f[i]]]

\* C5: for candidates with valid versions, the reduce over any permutation of
\* the candidates array selects the identical record (same id, version and
\* manifest path).
C5_OrderIndependent ==
    (selOut.done /\ AllValid(selIn)) =>
        \A f \in IndexPermutations(Len(selIn)) :
            Reduce(Permuted(selIn, f), Keep(NullPackage)).best = selOut.best

\* precedence of candidate a against candidate b: -1, 0 or 1
Precedence(a, b) == compare(parse(a.version), parse(b.version))

\* C6: for candidates with valid versions, the reduce selects one of them; no
\* candidate has a version of higher precedence than the selected one, and no
\* candidate of equal precedence has a greater manifest path string.
C6_SelectsGreatest ==
    (selOut.done /\ AllValid(selIn)) =>
        /\ ~selOut.threw
        /\ selOut.best.present
        /\ \E i \in 1..Len(selIn) : selIn[i] = selOut.best.pkg
        /\ \A i \in 1..Len(selIn) :
              /\ Precedence(selIn[i], selOut.best.pkg) <= 0
              /\ Precedence(selIn[i], selOut.best.pkg) = 0
                    => ~StrGt(selIn[i].manifest_path, selOut.best.pkg.manifest_path)

\* the first candidate has the highest version but a later one with the same
\* version and a greater manifest path was selected
C6_Witness ==
    /\ selOut.done
    /\ AllValid(selIn)
    /\ Len(selIn) >= 2
    /\ selOut.best.pkg # selIn[1]
    /\ Precedence(selIn[1], selOut.best.pkg) = 0
    /\ StrGt(selOut.best.pkg.manifest_path, selIn[1].manifest_path)

\* the length the retained texts declared before p take in the artifact, each
\* with the separator that follows it
RECURSIVE LengthBefore(_)
LengthBefore(p) ==
    IF p <= 1 THEN 0
    ELSE LengthBefore(p - 1) + (IF Retained(p - 1) THEN Len(TextOf(p - 1)) + 2 ELSE 0)

LastRetained(p) == Retained(p) /\ \A q \in Producers : q > p => ~Retained(q)

\* C7: once assembled, the artifact is exactly the retained texts (fulfilled,
\* present and non-empty) laid out in declaration order, each but the last
\* followed by one "\n\n": with n retained texts there are n - 1 separators,
\* none at the start, at the end, or for a dropped entry.
C7_SingleSeparators ==
    Assembled =>
        /\ \A p \in Producers : Retained(p) =>
              /\ SubSeq(content, LengthBefore(p) + 1, LengthBefore(p) + Len(TextOf(p))) = TextOf(p)
              /\ IF LastRetained(p)
                 THEN Len(content) = LengthBefore(p) + Len(TextOf(p))
                 ELSE SubSeq(content, LengthBefore(p) + Len(TextOf(p)) + 1,
                             LengthBefore(p) + Len(TextOf(p)) + 2) = <<"\n", "\n">>
        /\ (\A p \in Producers : ~Retained(p)) => content = <<>>

\* the artifact was printed with a dropped entry (absent or empty text)
\* declared between two retained ones
C7_Witness ==
    /\ mainpc = "done"
    /\ \E i \in Producers : \E j \in Producers : \E k \in Producers :
          /\ i < j
          /\ j < k
          /\ Retained(i)
          /\ res[j].state = "fulfilled"
          /\ ~Retained(j)
          /\ Retained(k)

IsDep(p) == declared[p].kind = "includeCargoDependencyFileIfExists"

\* the candidates producer p found in the fetched metadata
CandidatesOf(p) == FilterByName(cached.value, declared[p].dependencyName)

\* producer p has resumed from its await of a fulfilled metadata fetch
LookedUp(p) == IsDep(p) /\ cached.state = "fulfilled" /\ pc[p] \in {"stat", "read", "done"}

\* dependency producer p is in one of the two skip cases
SkipCase(p) ==
    \/ LookedUp(p) /\ Len(CandidatesOf(p)) = 0
    \/ IsDep(p) /\ statSeen[p] = "NotFound"

\* C8: a dependency producer whose name matches no package of the metadata,
\* or whose file Deno.stat reports as not found, is fulfilled with null, not
\* rejected; if the other producers are fulfilled the batch is fulfilled, with
\* null at the producer's index.
C8_SilentSkip ==
    \A p \in Producers : SkipCase(p) =>
        /\ res[p] = Fulfilled(Absent)
        /\ (\A q \in Producers : res[q].state = "fulfilled")
              => (allState.state = "fulfilled" /\ allState.values[p] = Absent)

\* a dependency producer whose file was not found, in a run that printed the
\* other sections
C8_Witness ==
    /\ mainpc = "done"
    /\ content # <<>>
    /\ \E p \in Producers :
          /\ IsDep(p)
          /\ statSeen[p] = "NotFound"
          /\ Len(CandidatesOf(p)) > 0

\* C9 as claimed: a fulfilled metadata fetch holds only records whose version
\* parses as a semantic version.
C9_FetchValidatesVersions ==
    cached.state = "fulfilled" =>
        \A i \in 1..Len(cached.value) : parse(cached.value[i].version).ok

\* C9 as amended: the fetch never fails for a version; a dependency producer
\* fails with the invalid-version error exactly when at least two records
\* bear its dependency name and one of them has an unparseable version.
C9_LookupValidatesCompared ==
    /\ cached.err.kind # "invalid semver"
    /\ \A p \in Producers : LookedUp(p) =>
          ((res[p].state = "rejected" /\ res[p].err.kind = "invalid semver")
             <=> (Len(CandidatesOf(p)) >= 2 /\ ~AllValid(CandidatesOf(p))))

\* the only record of the looked-up name has an unparseable version, and the
\* producer went on to render the file of that package
C9_Witness ==
    \E p \in Producers :
        /\ LookedUp(p)
        /\ Len(CandidatesOf(p)) = 1
        /\ ~AllValid(CandidatesOf(p))
        /\ Retained(p)

\* C10 as claimed: whenever the Promise.all promise has settled, fulfilled or
\* rejected, no producer is pending.
C10_OutcomeOnlyWhenAllSettled ==
    allState.state \in {"fulfilled", "rejected"}
        => \A p \in Producers : res[p].state # "pending"

\* C10 as amended: every producer has been started before the top level
\* awaits and before any awaited answer is delivered; the batch is fulfilled
\* only when every producer is fulfilled; it is rejected as soon as one
\* producer is rejected, whether or not others are pending.
C10_StartsAllWaitsOnSuccess ==
    /\ mainpc # "array" => started = NumProducers
    /\ \A p \in Producers : (p > started) = (pc[p] = "unstarted")
    /\ mainpc = "array" =>
          \A p \in Producers : res[p].state # "pending" => declared[p].kind = "resolve"
    /\ allState.state = "fulfilled" => \A p \in Producers : res[p].state = "fulfilled"
    /\ (mainpc # "array" /\ \E p \in Producers : res[p].state = "rejected")
          => allState.state = "rejected"

\* the batch was fulfilled after its producers settled out of declaration order
C10_Witness ==
    /\ allState.state = "fulfilled"
    /\ overtook
    /\ \A p \in Producers : declared[p].kind # "resolve"

\* producer p is rejected in this step
FailsNow(p) == res[p].state = "pending" /\ res'[p].state = "rejected"

\* C11: the batch is rejected in the step in which the first producer is
\* rejected, with that producer's error; the error of the batch never changes
\* afterwards, whichever producer is rejected later, and it is the error that
\* ends the run; the step in which a producer is rejected changes no other
\* producer's position or promise.
C11_FirstFailureIsBatchError ==
    [][ /\ allState.state = "rejected" =>
              allState'.state = "rejected" /\ allState'.err = allState.err
        /\ (allState.state # "rejected" /\ allState'.state = "rejected") =>
              /\ \A q \in Producers : res[q].state # "rejected"
              /\ \E p \in Producers : FailsNow(p) /\ allState'.err = res'[p].err
        /\ (\E p \in Producers : FailsNow(p)) => allState'.state = "rejected"
        /\ \A p \in Producers : FailsNow(p) =>
              \A q \in Producers \ {p} : res'[q] = res[q] /\ pc'[q] = pc[q]
        /\ (mainpc = "await" /\ mainpc' = "failed") => uncaught' = allState.err
      ]_vars

\* the run ended with the error of one producer while a sibling, which went on
\* running, was rejected with another error and a third one was fulfilled
C11_Witness ==
    /\ mainpc = "failed"
    /\ \E p, q, s \in Producers :
          /\ res[p] = Rejected(uncaught)
          /\ res[q].state = "rejected"
          /\ res[q].err # uncaught
          /\ res[s].state = "fulfilled"
          /\ declared[s].kind # "resolve"

\* text occurs in s as a contiguous run of characters
Contains(s, text) ==
    \E i \in 1..(Len(s) - Len(text) + 1) : SubSeq(s, i, i + Len(text) - 1) = text

\* the message of err names the non-empty text; the fixed words of a message
\* (err.kind) hold no path and no dependency name
Mentions(err, text) == text # <<>> /\ Contains(err.subject, text)

\* the failures the claim lists: unknown extension, invalid version, abnormal
\* exit of the metadata command, unparseable metadata output
ListedFailures ==
    { "Could not get a language identifier for extension", "invalid semver",
      "cargo metadata failed", "SyntaxError" }

MetadataFailures == { "cargo metadata failed", "SyntaxError" }

\* the run ended with err, the error of a producer whose path or dependency
\* name the message holds
IdentifiesSource(err) ==
    \E p \in Producers :
        /\ res[p] = Rejected(err)
        /\ Mentions(err, declared[p].path) \/ Mentions(err, declared[p].dependencyName)

\* C12 as claimed: when the run ends with one of the listed failures, the
\* message of the error holds the path or the dependency name of the producer
\* that failed, and the message of a metadata fetch or parse failure holds
\* what the command wrote to stderr.
C12_ErrorsIdentifySource ==
    (mainpc = "failed" /\ uncaught.kind \in ListedFailures) =>
        /\ IdentifiesSource(uncaught)
        /\ uncaught.kind \in MetadataFailures =>
              Contains(uncaught.subject, trim(stderrSeen))

=============================================================================
